---- MODULE Spec2Model ----
(***************************************************************************)
(* Drift-monitoring engine of the VQA service.                             *)
(*                                                                         *)
(* The state is the module-level EvidentlyVQADriftDetector instance        *)
(* (backend/app/api/v1/detector/evidently_vqa_drift.py) and the drift      *)
(* gauges the /answer route writes (backend/app/api/v1/routes/vqa.py).     *)
(* The Evidently comparison and the BLIP model are external: each call     *)
(* to them is a nondeterministic choice over the outcomes they can have.   *)
(*                                                                         *)
(* datetime.now() is a logical clock that advances with every sample, so   *)
(* a sample's timestamp is its arrival number.  The detector never looks   *)
(* into a feature dict (only the external comparison does), so a feature   *)
(* dict is an opaque value.                                                *)
(***************************************************************************)
EXTENDS Integers, Sequences, FiniteSets, TLC

VARIABLES
    vqa_drift_detector,   \* the detector object: one field per attribute
    clock,                \* datetime.now(), in arrivals
    added,                \* history: every sample add_sample built, in order
    last,                 \* history: the most recent detector method call
    prev,                 \* history: the call before it
    was_reset,            \* history: reset_reference has been called
    gauges,               \* VQA_EVIDENTLY_* gauges of the metrics sink
    response,             \* what the last route handler answered
    service,              \* the router the requests of this run go to
    pc,                   \* where each request in flight stands in its handler
    evidently_detector,   \* the detector object of the detection routes
    reference_embedding,  \* the baseline embedding of the detection routes
    yolo_gauges,          \* EVIDENTLY_* and DRIFT_EMBEDDING_DISTANCE gauges
    question,             \* the question text handed to _detect_question_type
    question_type         \* what _detect_question_type returned for it

vars == <<vqa_drift_detector, clock, added, last, prev, was_reset, gauges,
          response, service, pc, evidently_detector, reference_embedding,
          yolo_gauges, question, question_type>>

----------------------------------------------------------------------------
(* Bounds and program constants *)

MaxWindow == 3          \* window sizes explored by Spec: 1..MaxWindow
MaxAdds == 6            \* samples fed to the detector by Spec
ExtraAdds == 2          \* samples the route is fed beyond reference + detection size
MaxInFlight == 2        \* requests a router serves at the same time
MaxRouteWindow == 2     \* window sizes explored by SpecRoutes: 1..MaxRouteWindow
MaxRequests == 4        \* samples added through the routes by SpecRoutes
MaxPad == 1             \* whitespace characters put before and after a question
DefaultReferenceWindowSize == 30
DefaultDetectionWindowSize == 20
NumColumns == 13        \* columns of a sample: 12 features and the timestamp

Features == {"f0"}                \* feature dicts a request can produce
DriftedColumnChoices == {0, 7, NumColumns}
InferenceOutcomes == {"ok", "raise"}   \* the model answers or raises
Services == {"vqa", "yolo"}
Requests == 1..MaxInFlight
\* embedding proxies: the fallback [b, b, b, b] for brightness 0 and 1, and
\* one mean box
Embeddings == {<<0, 0, 0, 0>>, <<1, 1, 1, 1>>, <<1, 2, 3, 4>>}

----------------------------------------------------------------------------
(* Python values *)

None == {}
Some(x) == {x}
Get(opt) == CHOOSE x \in opt : TRUE

Min(a, b) == IF a <= b THEN a ELSE b
Max(a, b) == IF a >= b THEN a ELSE b

\* s[:n]
PySliceTo(s, n) ==
    IF n >= 0 THEN SubSeq(s, 1, Min(n, Len(s)))
              ELSE SubSeq(s, 1, Max(0, Len(s) + n))

\* s[n:]
PySliceFrom(s, n) ==
    IF n >= 0 THEN SubSeq(s, Min(n, Len(s)) + 1, Len(s))
              ELSE SubSeq(s, Max(0, Len(s) + n) + 1, Len(s))

----------------------------------------------------------------------------
(* The external drift comparison: Report.run + snapshot.json().  It        *)
(* raises, or yields a document without a DatasetDriftMetric entry, or     *)
(* yields the entry; drift_share is kept in percent, and the data set      *)
(* counts as drifted when at least half of the columns drifted.            *)

DatasetDriftMetric(k) ==
    [kind |-> "metric",
     number_of_drifted_columns |-> k,
     drift_share |-> (k * 100) \div NumColumns,
     dataset_drift |-> (2 * k >= NumColumns)]

CollaboratorOutcomes ==
    {[kind |-> "raise", message |-> "comparison failed"], [kind |-> "no_metric"]}
        \cup {DatasetDriftMetric(k) : k \in DriftedColumnChoices}

----------------------------------------------------------------------------
(* EvidentlyVQADriftDetector *)

NewDetector(reference_window_size, detection_window_size) ==
    [reference_window_size |-> reference_window_size,
     detection_window_size |-> detection_window_size,
     reference_data |-> <<>>,
     current_data |-> <<>>,
     drift_detected |-> FALSE,
     drift_report |-> None,
     last_check_time |-> None]

MakeSample(now, features) == [timestamp |-> now, features |-> features]

\* add_sample that never evicts from the current window
add_sample_no_evict(self, sample) ==
    LET current1 == Append(self.current_data, sample)
        samples_needed == self.reference_window_size - Len(self.reference_data)
        reference2 ==
            IF /\ Len(self.reference_data) < self.reference_window_size
               /\ Len(current1) >= self.detection_window_size
            THEN self.reference_data \o PySliceTo(current1, samples_needed)
            ELSE self.reference_data
    IN  [self EXCEPT !.reference_data = reference2,
                     !.current_data = current1]

\* add_sample that evicts with pop() instead of pop(0)
add_sample_pop_newest(self, sample) ==
    LET appended == Append(self.current_data, sample)
        over == Len(appended) > self.detection_window_size
        moves == over /\ Len(self.reference_data) < self.reference_window_size
        reference1 == IF moves
                      THEN Append(self.reference_data, appended[Len(appended)])
                      ELSE self.reference_data
        current1 == IF over THEN SubSeq(appended, 1, Len(appended) - 1)
                            ELSE appended
        samples_needed == self.reference_window_size - Len(reference1)
        reference2 ==
            IF /\ Len(reference1) < self.reference_window_size
               /\ Len(current1) >= self.detection_window_size
            THEN reference1 \o PySliceTo(current1, samples_needed)
            ELSE reference1
    IN  [self EXCEPT !.reference_data = reference2,
                     !.current_data = current1]

\* add_sample whose backfill takes the newest samples: current_data[-samples_needed:]
add_sample_backfill_newest(self, sample) ==
    LET appended == Append(self.current_data, sample)
        over == Len(appended) > self.detection_window_size
        moves == over /\ Len(self.reference_data) < self.reference_window_size
        reference1 == IF moves THEN Append(self.reference_data, Head(appended))
                               ELSE self.reference_data
        current1 == IF over THEN Tail(appended) ELSE appended
        samples_needed == self.reference_window_size - Len(reference1)
        reference2 ==
            IF /\ Len(reference1) < self.reference_window_size
               /\ Len(current1) >= self.detection_window_size
            THEN reference1 \o PySliceFrom(current1, 0 - samples_needed)
            ELSE reference1
    IN  [self EXCEPT !.reference_data = reference2,
                     !.current_data = current1]

\* add_sample that evicts at >= instead of >
add_sample_evicts_early(self, sample) ==
    LET appended == Append(self.current_data, sample)
        over == Len(appended) >= self.detection_window_size
        moves == over /\ Len(self.reference_data) < self.reference_window_size
        reference1 == IF moves THEN Append(self.reference_data, Head(appended))
                               ELSE self.reference_data
        current1 == IF over THEN Tail(appended) ELSE appended
        samples_needed == self.reference_window_size - Len(reference1)
        reference2 ==
            IF /\ Len(reference1) < self.reference_window_size
               /\ Len(current1) >= self.detection_window_size
            THEN reference1 \o PySliceTo(current1, samples_needed)
            ELSE reference1
    IN  [self EXCEPT !.reference_data = reference2,
                     !.current_data = current1]

\* add_sample whose full reference window slides: it takes every evicted record
add_sample_slides_reference(self, sample) ==
    LET appended == Append(self.current_data, sample)
        over == Len(appended) > self.detection_window_size
        full == Len(self.reference_data) >= self.reference_window_size
        reference1 == IF over
                      THEN Append(IF full THEN Tail(self.reference_data)
                                          ELSE self.reference_data,
                                  Head(appended))
                      ELSE self.reference_data
        current1 == IF over THEN Tail(appended) ELSE appended
        samples_needed == self.reference_window_size - Len(reference1)
        reference2 ==
            IF /\ Len(reference1) < self.reference_window_size
               /\ Len(current1) >= self.detection_window_size
            THEN reference1 \o PySliceTo(current1, samples_needed)
            ELSE reference1
    IN  [self EXCEPT !.reference_data = reference2,
                     !.current_data = current1]

\* add_sample that backfills whether or not the current window is full
add_sample_backfills_early(self, sample) ==
    LET appended == Append(self.current_data, sample)
        over == Len(appended) > self.detection_window_size
        moves == over /\ Len(self.reference_data) < self.reference_window_size
        reference1 == IF moves THEN Append(self.reference_data, Head(appended))
                               ELSE self.reference_data
        current1 == IF over THEN Tail(appended) ELSE appended
        samples_needed == self.reference_window_size - Len(reference1)
        reference2 ==
            IF Len(reference1) < self.reference_window_size
            THEN reference1 \o PySliceTo(current1, samples_needed)
            ELSE reference1
    IN  [self EXCEPT !.reference_data = reference2,
                     !.current_data = current1]

\* add_sample without the backfill of the reference window
add_sample_no_backfill(self, sample) ==
    LET appended == Append(self.current_data, sample)
        over == Len(appended) > self.detection_window_size
        moves == over /\ Len(self.reference_data) < self.reference_window_size
        reference1 == IF moves THEN Append(self.reference_data, Head(appended))
                               ELSE self.reference_data
        current1 == IF over THEN Tail(appended) ELSE appended
    IN  [self EXCEPT !.reference_data = reference1,
                     !.current_data = current1]

add_sample(self, sample) ==
    LET appended == Append(self.current_data, sample)
        over == Len(appended) > self.detection_window_size
        moves == over /\ Len(self.reference_data) < self.reference_window_size
        reference1 == IF moves THEN Append(self.reference_data, Head(appended))
                               ELSE self.reference_data
        current1 == IF over THEN Tail(appended) ELSE appended
        samples_needed == self.reference_window_size - Len(reference1)
        reference2 ==
            IF /\ Len(reference1) < self.reference_window_size
               /\ Len(current1) >= self.detection_window_size
            THEN reference1 \o PySliceTo(current1, samples_needed)
            ELSE reference1
    IN  [self EXCEPT !.reference_data = reference2,
                     !.current_data = current1]

Unready(self, reason) ==
    IF reason = "insufficient_reference_data"
    THEN [drift_detected |-> FALSE,
          reason |-> reason,
          reference_size |-> Len(self.reference_data),
          required_reference_size |-> self.reference_window_size,
          current_size |-> Len(self.current_data)]
    ELSE [drift_detected |-> FALSE,
          reason |-> reason,
          reference_size |-> Len(self.reference_data),
          current_size |-> Len(self.current_data),
          required_current_size |-> self.detection_window_size]

Failed(reason) == [drift_detected |-> FALSE, reason |-> reason]

ErrorRecord(message) ==
    [drift_detected |-> FALSE, reason |-> "error", error |-> message]

DriftReport(self, outcome, now) ==
    [dataset_drift |-> outcome.dataset_drift,
     drift_share |-> outcome.drift_share,
     num_drifted_features |-> outcome.number_of_drifted_columns,
     reference_size |-> Len(self.reference_data),
     current_size |-> Len(self.current_data),
     timestamp |-> now]

\* storing the results without last_check_time
StoreReport_forgets_time(self, outcome, report, now) ==
    [self EXCEPT !.drift_detected = outcome.dataset_drift,
                 !.drift_report = Some(report)]

StoreReport(self, outcome, report, now) ==
    [self EXCEPT !.drift_detected = outcome.dataset_drift,
                 !.drift_report = Some(report),
                 !.last_check_time = Some(now)]

\* the try block with an except branch that reports a failed report generation
Compare_error_as_failed(self, outcome, now) ==
    IF outcome.kind \in {"raise", "no_metric"} THEN
        [self |-> self, compared |-> TRUE,
         result |-> Failed("report_generation_failed")]
    ELSE
        LET report == DriftReport(self, outcome, now)
        IN  [self |-> StoreReport(self, outcome, report, now),
             compared |-> TRUE, result |-> report]

\* the comparison and what follows it: the try block of detect_drift
Compare(self, outcome, now) ==
    IF outcome.kind = "raise" THEN
        [self |-> self, compared |-> TRUE, result |-> ErrorRecord(outcome.message)]
    ELSE IF outcome.kind = "no_metric" THEN
        [self |-> self, compared |-> TRUE,
         result |-> Failed("report_generation_failed")]
    ELSE
        LET report == DriftReport(self, outcome, now)
        IN  [self |-> StoreReport(self, outcome, report, now),
             compared |-> TRUE, result |-> report]

\* detect_drift that tests the current window before the reference window
detect_drift_current_first(self, outcome, now) ==
    IF Len(self.current_data) < self.detection_window_size THEN
        [self |-> self, compared |-> FALSE,
         result |-> Unready(self, "insufficient_current_data")]
    ELSE IF Len(self.reference_data) < self.reference_window_size THEN
        [self |-> self, compared |-> FALSE,
         result |-> Unready(self, "insufficient_reference_data")]
    ELSE Compare(self, outcome, now)

\* detect_drift that tests the window sizes with <= instead of <
detect_drift_off_by_one(self, outcome, now) ==
    IF Len(self.reference_data) <= self.reference_window_size THEN
        [self |-> self, compared |-> FALSE,
         result |-> Unready(self, "insufficient_reference_data")]
    ELSE IF Len(self.current_data) <= self.detection_window_size THEN
        [self |-> self, compared |-> FALSE,
         result |-> Unready(self, "insufficient_current_data")]
    ELSE Compare(self, outcome, now)

\* detect_drift that stamps last_check_time before it runs the comparison
detect_drift_stamps_first(self, outcome, now) ==
    IF Len(self.reference_data) < self.reference_window_size THEN
        [self |-> self, compared |-> FALSE,
         result |-> Unready(self, "insufficient_reference_data")]
    ELSE IF Len(self.current_data) < self.detection_window_size THEN
        [self |-> self, compared |-> FALSE,
         result |-> Unready(self, "insufficient_current_data")]
    ELSE Compare([self EXCEPT !.last_check_time = Some(now)], outcome, now)

detect_drift(self, outcome, now) ==
    IF Len(self.reference_data) < self.reference_window_size THEN
        [self |-> self, compared |-> FALSE,
         result |-> Unready(self, "insufficient_reference_data")]
    ELSE IF Len(self.current_data) < self.detection_window_size THEN
        [self |-> self, compared |-> FALSE,
         result |-> Unready(self, "insufficient_current_data")]
    ELSE Compare(self, outcome, now)

\* reset_reference that keeps the stored drift results
reset_reference_keeps_report(self) ==
    LET enough == Len(self.current_data) >= self.reference_window_size
        reference1 == IF enough
                      THEN PySliceTo(self.current_data, self.reference_window_size)
                      ELSE self.current_data
        current1 == IF enough
                    THEN PySliceFrom(self.current_data, self.reference_window_size)
                    ELSE <<>>
    IN  [self EXCEPT !.reference_data = reference1,
                     !.current_data = current1]

\* reset_reference that leaves the current window as it is
reset_reference_keeps_current(self) ==
    LET enough == Len(self.current_data) >= self.reference_window_size
        reference1 == IF enough
                      THEN PySliceTo(self.current_data, self.reference_window_size)
                      ELSE self.current_data
    IN  [self EXCEPT !.reference_data = reference1,
                     !.drift_detected = FALSE,
                     !.drift_report = None,
                     !.last_check_time = None]

\* reset_reference that always empties the current window
reset_reference_drops_remainder(self) ==
    LET enough == Len(self.current_data) >= self.reference_window_size
        reference1 == IF enough
                      THEN PySliceTo(self.current_data, self.reference_window_size)
                      ELSE self.current_data
    IN  [self EXCEPT !.reference_data = reference1,
                     !.current_data = <<>>,
                     !.drift_detected = FALSE,
                     !.drift_report = None,
                     !.last_check_time = None]

reset_reference(self) ==
    LET enough == Len(self.current_data) >= self.reference_window_size
        reference1 == IF enough
                      THEN PySliceTo(self.current_data, self.reference_window_size)
                      ELSE self.current_data
        current1 == IF enough
                    THEN PySliceFrom(self.current_data, self.reference_window_size)
                    ELSE <<>>
    IN  [self EXCEPT !.reference_data = reference1,
                     !.current_data = current1,
                     !.drift_detected = FALSE,
                     !.drift_report = None,
                     !.last_check_time = None]

\* get_drift_summary that reports the flag and the share of a zero-valued report
get_drift_summary_zero_report(self) ==
    [self |-> self,
     result |-> [status |-> "no_drift",
                 drift_detected |-> FALSE,
                 drift_share |-> 0,
                 num_drifted_features |-> 0,
                 reference_samples |-> Len(self.reference_data),
                 current_samples |-> Len(self.current_data),
                 last_check |-> self.last_check_time]]

get_drift_summary(self) ==
    IF self.drift_report = None THEN
        [self |-> self,
         result |-> [status |-> "no_analysis",
                     reference_samples |-> Len(self.reference_data),
                     current_samples |-> Len(self.current_data)]]
    ELSE
        [self |-> self,
         result |-> [status |-> IF self.drift_detected THEN "drift_detected"
                                                       ELSE "no_drift",
                     drift_detected |-> self.drift_detected,
                     drift_share |-> Get(self.drift_report).drift_share,
                     num_drifted_features |->
                         Get(self.drift_report).num_drifted_features,
                     reference_samples |-> Len(self.reference_data),
                     current_samples |-> Len(self.current_data),
                     last_check |-> self.last_check_time]]

\* the pandas statistics over the current window succeed or raise
StatisticsOutcomes == {"ok", "raise"}

\* get_data_quality_report that builds the DataFrame of the reference window
get_data_quality_report_of_reference(self, statistics) ==
    IF Len(self.reference_data) = 0 THEN
        [self |-> self, result |-> [status |-> "no_data"]]
    ELSE IF statistics = "raise" THEN
        [self |-> self,
         result |-> [status |-> "error", error |-> "statistics failed"]]
    ELSE
        [self |-> self,
         result |-> [total_samples |-> Len(self.reference_data),
                     num_features |-> NumColumns]]

\* get_data_quality_report without its try block
get_data_quality_report_propagates(self, statistics) ==
    IF Len(self.current_data) = 0 THEN
        [self |-> self, result |-> [status |-> "no_data"]]
    ELSE IF statistics = "raise" THEN
        [self |-> self, raised |-> TRUE, result |-> [error |-> "statistics failed"]]
    ELSE
        [self |-> self,
         result |-> [total_samples |-> Len(self.current_data),
                     num_features |-> NumColumns]]

get_data_quality_report(self, statistics) ==
    IF Len(self.current_data) = 0 THEN
        [self |-> self, result |-> [status |-> "no_data"]]
    ELSE IF statistics = "raise" THEN
        [self |-> self,
         result |-> [status |-> "error", error |-> "statistics failed"]]
    ELSE
        [self |-> self,
         result |-> [total_samples |-> Len(self.current_data),
                     num_features |-> NumColumns]]

\* get_stats that consumes the current window while it averages it
get_stats_drains_current(self, statistics) ==
    IF Len(self.current_data) > 0 /\ statistics = "raise" THEN
        [self |-> self, raised |-> TRUE, result |-> None]
    ELSE
        [self |-> [self EXCEPT !.current_data = <<>>],
         raised |-> FALSE,
         result |-> Some([reference_size |-> Len(self.reference_data),
                          current_size |-> Len(self.current_data),
                          reference_window_size |-> self.reference_window_size,
                          detection_window_size |-> self.detection_window_size,
                          drift_detected |-> self.drift_detected,
                          last_check_time |-> self.last_check_time])]

\* get_stats has no try block: a failing statistic raises out of it
get_stats(self, statistics) ==
    IF Len(self.current_data) > 0 /\ statistics = "raise" THEN
        [self |-> self, raised |-> TRUE, result |-> None]
    ELSE
        [self |-> self,
         raised |-> FALSE,
         result |-> Some([reference_size |-> Len(self.reference_data),
                          current_size |-> Len(self.current_data),
                          reference_window_size |-> self.reference_window_size,
                          detection_window_size |-> self.detection_window_size,
                          drift_detected |-> self.drift_detected,
                          last_check_time |-> self.last_check_time])]

----------------------------------------------------------------------------
(* History of detector method calls *)

NoCall == [op |-> "none"]

AddCall(self, sample) == [op |-> "add_sample", pre |-> self, sample |-> sample]

DetectCall(self, outcome, d) ==
    [op |-> "detect_drift", pre |-> self, outcome |-> outcome,
     compared |-> d.compared, result |-> d.result]

ResetCall(self) == [op |-> "reset_reference", pre |-> self]

----------------------------------------------------------------------------
(* Initial states *)

NoGauges == [dataset_drift |-> 0, drift_share |-> 0, num_drifted_features |-> 0]

NoYoloGauges ==
    [dataset_drift |-> 0, drift_share |-> 0, num_drifted_features |-> 0,
     embedding_distance |-> 0]

InitWith(reference_window_size, detection_window_size) ==
    /\ vqa_drift_detector = NewDetector(reference_window_size, detection_window_size)
    /\ clock = 0
    /\ added = <<>>
    /\ last = NoCall
    /\ prev = NoCall
    /\ was_reset = FALSE
    /\ gauges = NoGauges
    /\ response = None
    /\ pc = [r \in Requests |-> "idle"]
    /\ evidently_detector = NewDetector(reference_window_size, detection_window_size)
    /\ reference_embedding = None
    /\ yolo_gauges = NoYoloGauges
    /\ question_type = None

Init ==
    /\ \E r \in 1..MaxWindow, d \in 1..MaxWindow : InitWith(r, d)
    /\ service = "vqa"
    /\ question = <<>>

InitDefaults ==
    /\ InitWith(DefaultReferenceWindowSize, DefaultDetectionWindowSize)
    /\ service = "vqa"
    /\ question = <<>>

\* the routers share no state, so a run sends its requests to one of them
InitRoutes ==
    /\ \E r \in 1..MaxRouteWindow, d \in 1..MaxRouteWindow : InitWith(r, d)
    /\ service \in Services
    /\ question = <<>>

MoreSamples == Len(added) < MaxAdds

MoreRequests ==
    Len(added) < vqa_drift_detector.reference_window_size
                    + vqa_drift_detector.detection_window_size + ExtraAdds

----------------------------------------------------------------------------
(* Detector method calls *)

AddSample(features) ==
    /\ MoreSamples
    /\ LET sample == MakeSample(clock + 1, features)
       IN  /\ vqa_drift_detector' = add_sample(vqa_drift_detector, sample)
           /\ added' = Append(added, sample)
           /\ last' = AddCall(vqa_drift_detector, sample)
    /\ clock' = clock + 1
    /\ prev' = last
    /\ UNCHANGED <<was_reset, gauges, response, service, pc, evidently_detector,
                 reference_embedding, yolo_gauges>>
    /\ UNCHANGED <<question, question_type>>

DetectDrift(outcome) ==
    /\ LET d == detect_drift(vqa_drift_detector, outcome, clock)
       IN  /\ vqa_drift_detector' = d.self
           /\ last' = DetectCall(vqa_drift_detector, outcome, d)
    /\ prev' = last
    /\ UNCHANGED <<clock, added, was_reset, gauges, response, service, pc,
                 evidently_detector, reference_embedding, yolo_gauges>>
    /\ UNCHANGED <<question, question_type>>

ResetReference ==
    /\ vqa_drift_detector' = reset_reference(vqa_drift_detector)
    /\ last' = ResetCall(vqa_drift_detector)
    /\ prev' = last
    /\ was_reset' = TRUE
    /\ UNCHANGED <<clock, added, gauges, response, service, pc,
                 evidently_detector, reference_embedding, yolo_gauges>>
    /\ UNCHANGED <<question, question_type>>

----------------------------------------------------------------------------
(* Route handlers *)

\* the gauge update that sets the gauges from every result, with defaults
DriftGauges_unconditional(g, drift_result) ==
    [g EXCEPT !.dataset_drift =
                  IF "dataset_drift" \in DOMAIN drift_result
                     /\ drift_result.dataset_drift THEN 1 ELSE 0,
              !.drift_share =
                  IF "drift_share" \in DOMAIN drift_result
                  THEN drift_result.drift_share ELSE 0,
              !.num_drifted_features =
                  IF "num_drifted_features" \in DOMAIN drift_result
                  THEN drift_result.num_drifted_features ELSE 0]

\* if drift_result.get('drift_share') is not None: set the three gauges
DriftGauges(g, drift_result) ==
    IF "drift_share" \in DOMAIN drift_result
    THEN [g EXCEPT !.dataset_drift = IF drift_result.dataset_drift THEN 1 ELSE 0,
                   !.drift_share = drift_result.drift_share,
                   !.num_drifted_features = drift_result.num_drifted_features]
    ELSE g

\* POST /answer with a successful inference
AnswerQuestion(features, outcome) ==
    /\ MoreRequests
    /\ LET sample == MakeSample(clock + 1, features)
           self1 == add_sample(vqa_drift_detector, sample)
           d == detect_drift(self1, outcome, clock + 1)
       IN  /\ vqa_drift_detector' = d.self
           /\ added' = Append(added, sample)
           /\ prev' = AddCall(vqa_drift_detector, sample)
           /\ last' = DetectCall(self1, outcome, d)
           /\ gauges' = DriftGauges(gauges, d.result)
           /\ response' = Some([status |-> 200, features |-> features,
                                evidently_drift |-> d.result])
    /\ clock' = clock + 1
    /\ UNCHANGED <<was_reset, service, pc, evidently_detector,
                   reference_embedding, yolo_gauges>>
    /\ UNCHANGED <<question, question_type>>

----------------------------------------------------------------------------
(* Requests served concurrently.  Every handler is a coroutine of one      *)
(* event loop: it gives the loop up only at an await, and the only await   *)
(* of /answer and /detect/ is the read of the upload.  The external        *)
(* comparison is a blocking call made on the loop: while it runs no other  *)
(* handler takes a step.                                                   *)

\* the loop, were the comparison awaited instead of called
LoopFree_yields == TRUE

LoopFree == \A r \in Requests : pc[r] # "comparing"

InFlight == {r \in Requests : pc[r] # "idle"}

\* requests are admitted while those in flight can still add their samples
MoreAdmitted == Len(added) + Cardinality(InFlight) < MaxRequests

\* whether detect_drift gets as far as the comparison
ReachesComparison(self) ==
    detect_drift(self, [kind |-> "no_metric"], 0).compared

\* the detector when the handler adds the sample before it runs the model
AfterInference_adds_first(self, inference, sample) == add_sample(self, sample)

\* the detector when /answer has run the model and, if that did not raise,
\* added the sample
AfterInference(self, inference, sample) ==
    IF inference = "raise" THEN self ELSE add_sample(self, sample)

AnswerResponse(sample, drift_result) ==
    Some([route |-> "answer", status |-> 200, features |-> sample.features,
          sample |-> sample, evidently_drift |-> drift_result])

ErrorResponse(route, status) == Some([route |-> route, status |-> status])

\* POST /answer up to await image.read()
AnswerReceive(r) ==
    /\ service = "vqa"
    /\ pc[r] = "idle"
    /\ LoopFree
    /\ MoreAdmitted
    /\ pc' = [pc EXCEPT ![r] = "reading"]
    /\ UNCHANGED <<vqa_drift_detector, clock, added, last, prev, was_reset,
                   gauges, response, service, evidently_detector,
                   reference_embedding, yolo_gauges>>
    /\ UNCHANGED <<question, question_type>>

\* POST /answer from the read to the comparison, or to the end when the
\* model raises or the detector is not ready
AnswerInfer(r, features, inference) ==
    /\ service = "vqa"
    /\ pc[r] = "reading"
    /\ LoopFree
    /\ LET sample == MakeSample(clock + 1, features)
           self1 == AfterInference(vqa_drift_detector, inference, sample)
           d == detect_drift(self1, [kind |-> "no_metric"], clock + 1)
       IN  IF inference = "raise" THEN
               /\ vqa_drift_detector' = self1
               /\ response' = ErrorResponse("answer", 500)
               /\ pc' = [pc EXCEPT ![r] = "idle"]
               /\ UNCHANGED <<clock, added, last, prev, gauges>>
           ELSE IF ReachesComparison(self1) THEN
               /\ vqa_drift_detector' = self1
               /\ added' = Append(added, sample)
               /\ clock' = clock + 1
               /\ prev' = last
               /\ last' = AddCall(vqa_drift_detector, sample)
               /\ pc' = [pc EXCEPT ![r] = "comparing"]
               /\ UNCHANGED <<gauges, response>>
           ELSE
               /\ vqa_drift_detector' = d.self
               /\ added' = Append(added, sample)
               /\ clock' = clock + 1
               /\ prev' = AddCall(vqa_drift_detector, sample)
               /\ last' = DetectCall(self1, [kind |-> "no_metric"], d)
               /\ gauges' = DriftGauges(gauges, d.result)
               /\ response' = AnswerResponse(sample, d.result)
               /\ pc' = [pc EXCEPT ![r] = "idle"]
    /\ UNCHANGED <<was_reset, service, evidently_detector,
                   reference_embedding, yolo_gauges>>
    /\ UNCHANGED <<question, question_type>>

\* POST /answer from the return of the comparison to the response
AnswerCompared(r, outcome) ==
    /\ service = "vqa"
    /\ pc[r] = "comparing"
    /\ LET d == detect_drift(vqa_drift_detector, outcome, clock)
       IN  /\ vqa_drift_detector' = d.self
           /\ prev' = last
           /\ last' = DetectCall(vqa_drift_detector, outcome, d)
           /\ gauges' = DriftGauges(gauges, d.result)
           /\ response' = AnswerResponse(added[Len(added)], d.result)
    /\ pc' = [pc EXCEPT ![r] = "idle"]
    /\ UNCHANGED <<clock, added, was_reset, service, evidently_detector,
                   reference_embedding, yolo_gauges>>
    /\ UNCHANGED <<question, question_type>>

\* GET /drift/status
GetDriftStatus ==
    /\ service = "vqa"
    /\ LoopFree
    /\ LET s == get_drift_summary(vqa_drift_detector)
       IN  /\ vqa_drift_detector' = s.self
           /\ response' = Some([route |-> "drift/status", status |-> 200,
                                body |-> s.result])
    /\ UNCHANGED <<clock, added, last, prev, was_reset, gauges, service, pc,
                   evidently_detector, reference_embedding, yolo_gauges>>
    /\ UNCHANGED <<question, question_type>>

\* GET /drift/summary
GetDriftSummary(statistics) ==
    /\ service = "vqa"
    /\ LoopFree
    /\ LET s == get_drift_summary(vqa_drift_detector)
           t == get_stats(s.self, statistics)
       IN  /\ vqa_drift_detector' = t.self
           /\ response' = IF t.raised
                          THEN ErrorResponse("drift/summary", 500)
                          ELSE Some([route |-> "drift/summary", status |-> 200,
                                     body |-> [drift_summary |-> s.result,
                                               detector_stats |-> Get(t.result)]])
    /\ UNCHANGED <<clock, added, last, prev, was_reset, gauges, service, pc,
                   evidently_detector, reference_embedding, yolo_gauges>>
    /\ UNCHANGED <<question, question_type>>

\* the reset handler, were it to clear the drift gauges as well
PostResetReference_clears_gauges(statistics) ==
    /\ service = "vqa"
    /\ LoopFree
    /\ LET self1 == reset_reference(vqa_drift_detector)
           t == get_stats(self1, statistics)
       IN  /\ vqa_drift_detector' = t.self
           /\ response' = IF t.raised
                          THEN ErrorResponse("drift/reset-reference", 500)
                          ELSE Some([route |-> "drift/reset-reference",
                                     status |-> 200,
                                     body |-> [status |-> "success",
                                               detector_stats |-> Get(t.result)]])
    /\ prev' = last
    /\ last' = ResetCall(vqa_drift_detector)
    /\ was_reset' = TRUE
    /\ gauges' = NoGauges
    /\ UNCHANGED <<clock, added, service, pc, evidently_detector,
                   reference_embedding, yolo_gauges>>
    /\ UNCHANGED <<question, question_type>>

\* POST /drift/reset-reference
PostResetReference(statistics) ==
    /\ service = "vqa"
    /\ LoopFree
    /\ LET self1 == reset_reference(vqa_drift_detector)
           t == get_stats(self1, statistics)
       IN  /\ vqa_drift_detector' = t.self
           /\ response' = IF t.raised
                          THEN ErrorResponse("drift/reset-reference", 500)
                          ELSE Some([route |-> "drift/reset-reference",
                                     status |-> 200,
                                     body |-> [status |-> "success",
                                               detector_stats |-> Get(t.result)]])
    /\ prev' = last
    /\ last' = ResetCall(vqa_drift_detector)
    /\ was_reset' = TRUE
    /\ UNCHANGED <<clock, added, gauges, service, pc, evidently_detector,
                   reference_embedding, yolo_gauges>>
    /\ UNCHANGED <<question, question_type>>

\* GET /data-quality
GetDataQuality(statistics) ==
    /\ service = "vqa"
    /\ LoopFree
    /\ LET q == get_data_quality_report(vqa_drift_detector, statistics)
       IN  /\ vqa_drift_detector' = q.self
           /\ response' = Some([route |-> "data-quality", status |-> 200,
                                body |-> q.result])
    /\ UNCHANGED <<clock, added, last, prev, was_reset, gauges, service, pc,
                   evidently_detector, reference_embedding, yolo_gauges>>
    /\ UNCHANGED <<question, question_type>>

\* GET /health
HealthCheck(statistics) ==
    /\ service = "vqa"
    /\ LoopFree
    /\ LET t == get_stats(vqa_drift_detector, statistics)
       IN  /\ vqa_drift_detector' = t.self
           /\ response' = IF t.raised
                          THEN ErrorResponse("health", 503)
                          ELSE Some([route |-> "health", status |-> 200,
                                     body |-> [reference_samples |->
                                                   Get(t.result).reference_size,
                                               current_samples |->
                                                   Get(t.result).current_size,
                                               drift_detected |->
                                                   Get(t.result).drift_detected]])
    /\ UNCHANGED <<clock, added, last, prev, was_reset, gauges, service, pc,
                   evidently_detector, reference_embedding, yolo_gauges>>
    /\ UNCHANGED <<question, question_type>>

----------------------------------------------------------------------------
(* The detection router.  Its detector has the operations of the VQA       *)
(* detector; its history is kept in the same history variables, since a    *)
(* behaviour addresses one router.                                         *)

\* The detector of the detection router: the windows, the readiness checks,
\* the comparison and the reset are those of the VQA detector, over samples
\* of brightness, number of detections, confidence and embedding features.
yolo_add_sample(self, sample) == add_sample(self, sample)

yolo_detect_drift(self, outcome, now) == detect_drift(self, outcome, now)

yolo_reset_reference(self) == reset_reference(self)

yolo_get_stats(self, statistics) == get_stats(self, statistics)

Dot(a, b) == a[1] * b[1] + a[2] * b[2] + a[3] * b[3] + a[4] * b[4]

\* 1 - cosine_similarity(a, b), in hundredths, the similarity rounded down;
\* a vector of norm zero is left as it is, so its similarity is 0
CosineDistance(a, b) ==
    IF Dot(a, a) = 0 \/ Dot(b, b) = 0 THEN 100
    ELSE 100 - CHOOSE p \in 0..100 :
                   /\ p * p * Dot(a, a) * Dot(b, b) <= 10000 * Dot(a, b) * Dot(a, b)
                   /\ \/ p = 100
                      \/ (p + 1) * (p + 1) * Dot(a, a) * Dot(b, b)
                             > 10000 * Dot(a, b) * Dot(a, b)

\* the distances of the embeddings explored
drift_scores == [a \in Embeddings, b \in Embeddings |-> CosineDistance(a, b)]

\* the baseline assigned by every request
SetBaseline_overwrites(baseline, embedding) == Some(embedding)

\* if reference_embedding is None: reference_embedding = embedding
SetBaseline(baseline, embedding) ==
    IF baseline = None THEN Some(embedding) ELSE baseline

\* if drift_result.get('drift_share') is not None: set the three gauges
EvidentlyGauges(g, drift_result) ==
    IF "drift_share" \in DOMAIN drift_result
    THEN [g EXCEPT !.dataset_drift = IF drift_result.dataset_drift THEN 1 ELSE 0,
                   !.drift_share = drift_result.drift_share,
                   !.num_drifted_features = drift_result.num_drifted_features]
    ELSE g

\* evidently_drift_info: {} unless the drift was analysed
EvidentlyDriftInfo(drift_result) ==
    IF "drift_share" \in DOMAIN drift_result THEN Some(drift_result) ELSE None

DetectResponse(sample, embedding_drift, drift_result) ==
    Some([route |-> "detect", status |-> 200, sample |-> sample,
          embedding_drift |-> embedding_drift,
          evidently_drift |-> EvidentlyDriftInfo(drift_result)])

\* POST /detect/ up to await file.read()
DetectReceive(r) ==
    /\ service = "yolo"
    /\ pc[r] = "idle"
    /\ LoopFree
    /\ MoreAdmitted
    /\ pc' = [pc EXCEPT ![r] = "reading"]
    /\ UNCHANGED <<vqa_drift_detector, clock, added, last, prev, was_reset,
                   gauges, response, service, evidently_detector,
                   reference_embedding, yolo_gauges>>
    /\ UNCHANGED <<question, question_type>>

\* POST /detect/ from the read to the comparison, or to the end when the
\* model raises or the detector is not ready
DetectInfer(r, features, embedding, inference) ==
    /\ service = "yolo"
    /\ pc[r] = "reading"
    /\ LoopFree
    /\ LET sample == MakeSample(clock + 1, features)
           baseline == SetBaseline(reference_embedding, embedding)
           drift_score == drift_scores[Get(baseline), embedding]
           self1 == yolo_add_sample(evidently_detector, sample)
           d == yolo_detect_drift(self1, [kind |-> "no_metric"], clock + 1)
           g == [yolo_gauges EXCEPT !.embedding_distance = drift_score]
       IN  IF inference = "raise" THEN
               /\ response' = ErrorResponse("detect", 500)
               /\ pc' = [pc EXCEPT ![r] = "idle"]
               /\ UNCHANGED <<evidently_detector, reference_embedding,
                              yolo_gauges, clock, added, last, prev>>
           ELSE IF ReachesComparison(self1) THEN
               /\ reference_embedding' = baseline
               /\ evidently_detector' = self1
               /\ yolo_gauges' = g
               /\ added' = Append(added, sample)
               /\ clock' = clock + 1
               /\ prev' = last
               /\ last' = AddCall(evidently_detector, sample)
               /\ pc' = [pc EXCEPT ![r] = "comparing"]
               /\ UNCHANGED response
           ELSE
               /\ reference_embedding' = baseline
               /\ evidently_detector' = d.self
               /\ yolo_gauges' = EvidentlyGauges(g, d.result)
               /\ added' = Append(added, sample)
               /\ clock' = clock + 1
               /\ prev' = AddCall(evidently_detector, sample)
               /\ last' = DetectCall(self1, [kind |-> "no_metric"], d)
               /\ response' = DetectResponse(sample, drift_score, d.result)
               /\ pc' = [pc EXCEPT ![r] = "idle"]
    /\ UNCHANGED <<vqa_drift_detector, was_reset, gauges, service>>
    /\ UNCHANGED <<question, question_type>>

\* POST /detect/ from the return of the comparison to the response; the
\* drift score of the request is the one it wrote to the gauge before the
\* comparison, during which nothing else ran
DetectCompared(r, outcome) ==
    /\ service = "yolo"
    /\ pc[r] = "comparing"
    /\ LET d == yolo_detect_drift(evidently_detector, outcome, clock)
       IN  /\ evidently_detector' = d.self
           /\ prev' = last
           /\ last' = DetectCall(evidently_detector, outcome, d)
           /\ yolo_gauges' = EvidentlyGauges(yolo_gauges, d.result)
           /\ response' = DetectResponse(added[Len(added)],
                                         yolo_gauges.embedding_distance, d.result)
    /\ pc' = [pc EXCEPT ![r] = "idle"]
    /\ UNCHANGED <<vqa_drift_detector, clock, added, was_reset, gauges,
                   service, reference_embedding>>
    /\ UNCHANGED <<question, question_type>>

\* POST /drift/reset-reference of the detection router
DetectResetReference(statistics) ==
    /\ service = "yolo"
    /\ LoopFree
    /\ LET self1 == yolo_reset_reference(evidently_detector)
           t == yolo_get_stats(self1, statistics)
       IN  /\ evidently_detector' = t.self
           /\ response' = IF t.raised
                          THEN ErrorResponse("drift/reset-reference", 500)
                          ELSE Some([route |-> "drift/reset-reference",
                                     status |-> 200,
                                     body |-> [status |-> "success",
                                               detector_stats |-> Get(t.result)]])
    /\ prev' = last
    /\ last' = ResetCall(evidently_detector)
    /\ was_reset' = TRUE
    /\ UNCHANGED <<vqa_drift_detector, clock, added, gauges, service, pc,
                   reference_embedding, yolo_gauges>>
    /\ UNCHANGED <<question, question_type>>

----------------------------------------------------------------------------
(* Question types.  A str is the sequence of its characters. *)

ascii_lowercase ==
    <<"a", "b", "c", "d", "e", "f", "g", "h", "i", "j", "k", "l", "m",
      "n", "o", "p", "q", "r", "s", "t", "u", "v", "w", "x", "y", "z">>

ascii_uppercase ==
    <<"A", "B", "C", "D", "E", "F", "G", "H", "I", "J", "K", "L", "M",
      "N", "O", "P", "Q", "R", "S", "T", "U", "V", "W", "X", "Y", "Z">>

Whitespace == {" ", "\t", "\n"}

\* str.lower()
lower(s) ==
    [i \in 1..Len(s) |->
        IF \E k \in 1..26 : ascii_uppercase[k] = s[i]
        THEN ascii_lowercase[CHOOSE k \in 1..26 : ascii_uppercase[k] = s[i]]
        ELSE s[i]]

\* str.upper()
upper(s) ==
    [i \in 1..Len(s) |->
        IF \E k \in 1..26 : ascii_lowercase[k] = s[i]
        THEN ascii_uppercase[CHOOSE k \in 1..26 : ascii_lowercase[k] = s[i]]
        ELSE s[i]]

\* str.strip()
strip(s) ==
    LET kept == {i \in 1..Len(s) : s[i] \notin Whitespace}
    IN  IF kept = {} THEN <<>>
        ELSE SubSeq(s, CHOOSE i \in kept : \A j \in kept : i <= j,
                       CHOOSE i \in kept : \A j \in kept : j <= i)

\* str.startswith(prefix)
startswith(s, prefix) ==
    /\ Len(prefix) <= Len(s)
    /\ SubSeq(s, 1, Len(prefix)) = prefix

what == <<"w", "h", "a", "t">>
where == <<"w", "h", "e", "r", "e">>
when == <<"w", "h", "e", "n">>
who == <<"w", "h", "o">>
why == <<"w", "h", "y">>
how_many == <<"h", "o", "w", " ", "m", "a", "n", "y">>
how_much == <<"h", "o", "w", " ", "m", "u", "c", "h">>
how == <<"h", "o", "w">>
is == <<"i", "s">>
are == <<"a", "r", "e">>
do == <<"d", "o">>
does == <<"d", "o", "e", "s">>

\* the chain that tests "how" before "how many" and "how much"
_detect_question_type_how_first(q) ==
    LET question_lower == strip(lower(q))
    IN  IF startswith(question_lower, what) THEN "what"
        ELSE IF startswith(question_lower, where) THEN "where"
        ELSE IF startswith(question_lower, when) THEN "when"
        ELSE IF startswith(question_lower, who) THEN "who"
        ELSE IF startswith(question_lower, why) THEN "why"
        ELSE IF startswith(question_lower, how) THEN "how"
        ELSE IF startswith(question_lower, how_many)
                \/ startswith(question_lower, how_much) THEN "how_many"
        ELSE IF startswith(question_lower, is) \/ startswith(question_lower, are)
                \/ startswith(question_lower, do)
                \/ startswith(question_lower, does) THEN "yes_no"
        ELSE "other"

_detect_question_type(q) ==
    LET question_lower == strip(lower(q))
    IN  IF startswith(question_lower, what) THEN "what"
        ELSE IF startswith(question_lower, where) THEN "where"
        ELSE IF startswith(question_lower, when) THEN "when"
        ELSE IF startswith(question_lower, who) THEN "who"
        ELSE IF startswith(question_lower, why) THEN "why"
        ELSE IF startswith(question_lower, how_many)
                \/ startswith(question_lower, how_much) THEN "how_many"
        ELSE IF startswith(question_lower, how) THEN "how"
        ELSE IF startswith(question_lower, is) \/ startswith(question_lower, are)
                \/ startswith(question_lower, do)
                \/ startswith(question_lower, does) THEN "yes_no"
        ELSE "other"

\* the questions explored: a first word, what follows it, in three
\* spellings, between runs of whitespace
FirstWords ==
    {what, where, when, who, why, how_many, how_much, how, is, are, do, does,
     <<"h", "o", "w", " ", " ", "m", "a", "n", "y">>,
     <<"h", "o", "w", "m", "a", "n", "y">>,
     <<"d", "e", "s", "c", "r", "i", "b", "e">>,
     <<"c", "a", "n">>, <<"a", " ", "w", "h", "a", "t">>, <<"w", "h">>, <<>>}

Rests == {<<>>, <<" ", "i", "t", "?">>, <<"s">>, <<"e", "v", "e", "r">>}

capitalize(s) == IF s = <<>> THEN s ELSE upper(SubSeq(s, 1, 1)) \o SubSeq(s, 2, Len(s))

Spellings(s) == {s, upper(s), capitalize(s)}

Pads == UNION {[1..n -> {" ", "\t"}] : n \in 0..MaxPad}

Questions ==
    {before \o text \o after :
        before \in Pads, after \in Pads,
        text \in UNION {Spellings(first \o rest) : first \in FirstWords, rest \in Rests}}

InitQuestions ==
    /\ InitWith(DefaultReferenceWindowSize, DefaultDetectionWindowSize)
    /\ service = "vqa"
    /\ question \in Questions

\* _extract_features computes the question type of the question it is given
DetectQuestionType ==
    /\ question_type = None
    /\ question_type' = Some(_detect_question_type(question))
    /\ UNCHANGED <<vqa_drift_detector, clock, added, last, prev, was_reset,
                   gauges, response, service, pc, evidently_detector,
                   reference_embedding, yolo_gauges, question>>

----------------------------------------------------------------------------
(* Specifications *)

\* any sequence of calls on the detector
Next ==
    \/ \E features \in Features : AddSample(features)
    \/ \E outcome \in CollaboratorOutcomes : DetectDrift(outcome)
    \/ ResetReference

Spec == Init /\ [][Next]_vars

\* the default detector fed through the /answer route only
NextDefaults ==
    \E features \in Features, outcome \in CollaboratorOutcomes :
        AnswerQuestion(features, outcome)

SpecDefaults == InitDefaults /\ [][NextDefaults]_vars

\* the route handlers of a router, with requests in flight at the same time
NextRoutes ==
    \/ \E r \in Requests : AnswerReceive(r)
    \/ \E r \in Requests, features \in Features, inference \in InferenceOutcomes :
           AnswerInfer(r, features, inference)
    \/ \E r \in Requests, outcome \in CollaboratorOutcomes : AnswerCompared(r, outcome)
    \/ GetDriftStatus
    \/ \E statistics \in StatisticsOutcomes : GetDriftSummary(statistics)
    \/ \E statistics \in StatisticsOutcomes : PostResetReference(statistics)
    \/ \E statistics \in StatisticsOutcomes : GetDataQuality(statistics)
    \/ \E statistics \in StatisticsOutcomes : HealthCheck(statistics)
    \/ \E r \in Requests : DetectReceive(r)
    \/ \E r \in Requests, features \in Features, embedding \in Embeddings,
          inference \in InferenceOutcomes :
           DetectInfer(r, features, embedding, inference)
    \/ \E r \in Requests, outcome \in CollaboratorOutcomes : DetectCompared(r, outcome)
    \/ \E statistics \in StatisticsOutcomes : DetectResetReference(statistics)

SpecRoutes == InitRoutes /\ [][NextRoutes]_vars

\* the classification of one question
NextQuestions == DetectQuestionType

SpecQuestions == InitQuestions /\ [][NextQuestions]_vars

----------------------------------------------------------------------------
(* Properties *)

Reference == vqa_drift_detector.reference_data
Current == vqa_drift_detector.current_data
reference_size == vqa_drift_detector.reference_window_size
detection_size == vqa_drift_detector.detection_window_size

IsUnready(result) ==
    /\ "reason" \in DOMAIN result
    /\ result.reason \in {"insufficient_reference_data", "insufficient_current_data"}

IsDriftReport(result) == "drift_share" \in DOMAIN result

IsSuffixOf(s, t) ==
    /\ Len(s) <= Len(t)
    /\ s = SubSeq(t, Len(t) - Len(s) + 1, Len(t))

OldestFirst(window) ==
    \A i, j \in 1..Len(window) :
        i < j => window[i].timestamp < window[j].timestamp

\* C1: after every add_sample call, with reset_reference calls interleaved
\* or not, neither window holds more records than its capacity.
C1_WindowsWithinCapacity ==
    /\ Len(Reference) <= reference_size
    /\ Len(Current) <= detection_size

\* an add_sample call on two full windows, after a reset
C1_Witness ==
    /\ last.op = "add_sample"
    /\ was_reset
    /\ Len(last.pre.current_data) = detection_size
    /\ Len(last.pre.reference_data) = reference_size
    /\ Len(Current) = detection_size

\* C2: detect_drift returns a not-ready result exactly when a window is
\* short and attempts the comparison otherwise; the reason is
\* insufficient_reference_data whenever Reference is short, and
\* insufficient_current_data only when Reference is full and Current short.
C2_UnreadyExactlyWhenShort ==
    last.op = "detect_drift" =>
        LET self == last.pre
            shortReference == Len(self.reference_data) < self.reference_window_size
            shortCurrent == Len(self.current_data) < self.detection_window_size
        IN  /\ IsUnready(last.result) <=> (shortReference \/ shortCurrent)
            /\ last.compared <=> ~(shortReference \/ shortCurrent)
            /\ shortReference =>
                   last.result.reason = "insufficient_reference_data"
            /\ (IsUnready(last.result)
                    /\ last.result.reason = "insufficient_current_data")
                   => (~shortReference /\ shortCurrent)

\* detect_drift called with Reference full and Current short
C2_Witness ==
    /\ last.op = "detect_drift"
    /\ Len(last.pre.reference_data) = reference_size
    /\ Len(last.pre.current_data) < detection_size
    /\ last.result.reason = "insufficient_current_data"

\* The three steps of add_sample as the claim C3 words them, with the
\* number of records step (3) copies left open.
AddSampleSteps(call, post, copied(_, _)) ==
    LET self == call.pre
        appended == Append(self.current_data, call.sample)
        exceeds == Len(appended) > self.detection_window_size
        afterEvict == IF exceeds THEN SubSeq(appended, 2, Len(appended))
                                 ELSE appended
        moved == IF exceeds /\ Len(self.reference_data) < self.reference_window_size
                 THEN self.reference_data \o <<appended[1]>>
                 ELSE self.reference_data
        shortfall == self.reference_window_size - Len(moved)
        n == copied(shortfall, Len(afterEvict))
    IN  /\ post.current_data = afterEvict
        /\ IF Len(moved) < self.reference_window_size
              /\ Len(afterEvict) >= self.detection_window_size
           THEN /\ Len(post.reference_data) = Len(moved) + n
                /\ \A i \in 1..Len(moved) : post.reference_data[i] = moved[i]
                /\ \A i \in 1..n :
                       post.reference_data[Len(moved) + i] = afterEvict[i]
           ELSE post.reference_data = moved
        /\ post.drift_detected = self.drift_detected
        /\ post.drift_report = self.drift_report
        /\ post.last_check_time = self.last_check_time

TheShortfall(shortfall, available) == shortfall
WhatThereIs(shortfall, available) == Min(shortfall, available)

\* C3 as stated: step (3) appends the first (reference_window_size -
\* len(Reference)) records of Current to Reference.
C3_AddSampleAsStated ==
    last.op = "add_sample" =>
        AddSampleSteps(last, vqa_drift_detector, TheShortfall)

\* C3: add_sample appends the record to Current; evicts the oldest record
\* of an over-full Current, into Reference if Reference is not full; then,
\* if Reference is below capacity and Current at capacity, appends to
\* Reference the first min(shortfall, len(Current)) records of Current.
C3_AddSampleSteps ==
    last.op = "add_sample" =>
        AddSampleSteps(last, vqa_drift_detector, WhatThereIs)

\* an add_sample call whose backfill wanted more records than Current held
C3_Witness ==
    /\ last.op = "add_sample"
    /\ Len(last.pre.reference_data) = 0
    /\ Len(Current) = detection_size
    /\ reference_size > detection_size
    /\ Len(Reference) = detection_size

\* C4: Current is a contiguous suffix, in arrival order, of all records
\* ever added; without a reset it holds exactly the most recent
\* min(n, detection_window_size) of the n records added.
C4_CurrentIsLastN ==
    /\ IsSuffixOf(Current, added)
    /\ ~was_reset => Len(Current) = Min(Len(added), detection_size)

\* an add_sample call evicting from a full Current, after a reset
C4_Witness ==
    /\ last.op = "add_sample"
    /\ was_reset
    /\ Len(last.pre.current_data) = detection_size
    /\ Len(added) > detection_size + 1
    /\ Len(Current) < Len(added)

\* C5: in both windows the record at an earlier position was added by an
\* earlier add_sample call.
C5_InsertionOrderPreserved ==
    /\ OldestFirst(Reference)
    /\ OldestFirst(Current)

\* C6: reset_reference makes the first reference_window_size records of
\* Current the new Reference and the rest the new Current, or, when Current
\* holds fewer, all of Current the new Reference and Current empty.
C6_ResetReferenceEffect ==
    last.op = "reset_reference" =>
        LET old == last.pre.current_data
            n == last.pre.reference_window_size
        IN  IF Len(old) >= n
            THEN /\ Reference = [i \in 1..n |-> old[i]]
                 /\ Current = [i \in 1..(Len(old) - n) |-> old[n + i]]
            ELSE /\ Reference = old
                 /\ Current = <<>>

\* a reset that splits Current: a full new Reference and a remainder
C6_Witness ==
    /\ last.op = "reset_reference"
    /\ Len(last.pre.current_data) > reference_size
    /\ Len(last.pre.reference_data) = reference_size
    /\ Len(Current) > 0

\* C7: detect_drift right after reset_reference is not ready, unless
\* Current held at least reference_window_size records before the reset
\* and at least detection_window_size beyond those.
C7_UnreadyAfterReset ==
    (last.op = "detect_drift" /\ prev.op = "reset_reference") =>
        \/ IsUnready(last.result)
        \/ /\ Len(prev.pre.current_data) >= reference_size
           /\ Len(prev.pre.current_data) - reference_size >= detection_size

\* detect_drift right after a reset of a ready detector
C7_Witness ==
    /\ last.op = "detect_drift"
    /\ prev.op = "reset_reference"
    /\ Len(prev.pre.reference_data) = reference_size
    /\ Len(prev.pre.current_data) = detection_size
    /\ Len(prev.pre.current_data) >= reference_size
    /\ prev.pre.drift_report # None

Phase(call) ==
    IF call.op # "detect_drift" THEN 0
    ELSE IF ~IsUnready(call.result) THEN 3
    ELSE IF call.result.reason = "insufficient_reference_data" THEN 1
    ELSE 2

PhaseByWindows ==
    last.op = "detect_drift" =>
        /\ Phase(last) = 1 <=> Len(last.pre.reference_data) < DefaultReferenceWindowSize
        /\ Phase(last) = 2 <=>
               /\ Len(last.pre.reference_data) >= DefaultReferenceWindowSize
               /\ Len(last.pre.current_data) < DefaultDetectionWindowSize
        /\ (Phase(last) = 3 /\ last.outcome.kind = "metric")
               => IsDriftReport(last.result)

\* C8 as stated: with sizes 30 and 20 the results run through the phases
\* insufficient_reference_data, insufficient_current_data, DriftReport,
\* each phase entered from the one before it.
C8_ThreePhasesInOrder ==
    /\ []PhaseByWindows
    /\ [][Phase(last') \in {Phase(last), Phase(last) + 1}]_vars

\* C8: with sizes 30 and 20 the result is insufficient_reference_data
\* until Reference holds 30 records and a DriftReport on every later call;
\* Current holds 20 records by then, so insufficient_current_data is never
\* returned; the phases never go backwards.
C8_PhasesNeverGoBack ==
    /\ []PhaseByWindows
    /\ [](Phase(last) # 2)
    /\ [][Phase(last') >= Phase(last)]_vars

\* a DriftReport returned some requests after the first one
C8_Witness ==
    /\ reference_size = DefaultReferenceWindowSize
    /\ detection_size = DefaultDetectionWindowSize
    /\ last.op = "detect_drift"
    /\ IsDriftReport(last.result)
    /\ Len(added) > DefaultDetectionWindowSize + 1
    /\ last.result.timestamp = Len(added)

\* C9: from empty windows and without a reset, once reference_window_size
\* + detection_window_size samples were added both windows are at
\* capacity, detect_drift runs the comparison, and a comparison that
\* reports no drifted column yields a report with drift_share = 0.
C9_ReadyAfterBothSizes ==
    (~was_reset /\ Len(added) >= reference_size + detection_size) =>
        /\ Len(Reference) = reference_size
        /\ Len(Current) = detection_size
        /\ last.op = "detect_drift" =>
               /\ last.compared
               /\ (last.outcome.kind = "metric"
                      /\ last.outcome.number_of_drifted_columns = 0)
                     => /\ IsDriftReport(last.result)
                        /\ last.result.drift_share = 0

\* the request that adds sample 50 to the default detector, no column drifted
C9_Witness ==
    /\ reference_size = DefaultReferenceWindowSize
    /\ detection_size = DefaultDetectionWindowSize
    /\ Len(added) = reference_size + detection_size
    /\ last.op = "detect_drift"
    /\ last.outcome.kind = "metric"
    /\ last.outcome.number_of_drifted_columns = 0
    /\ last.result.drift_share = 0

\* C10: when the comparison raises, detect_drift returns an error record
\* carrying the message and leaves every field of the detector unchanged.
C10_ErrorLeavesStateUnchanged ==
    (last.op = "detect_drift" /\ last.compared /\ last.outcome.kind = "raise") =>
        /\ last.result.reason = "error"
        /\ last.result.error = last.outcome.message
        /\ vqa_drift_detector = last.pre

\* a comparison that raises on a detector holding an earlier report
C10_Witness ==
    /\ last.op = "detect_drift"
    /\ last.compared
    /\ last.outcome.kind = "raise"
    /\ last.pre.drift_report # None
    /\ Get(last.pre.drift_report).timestamp < clock

IsErrorRecord(result) ==
    /\ "reason" \in DOMAIN result
    /\ result.reason = "error"

IsFailedRecord(result) ==
    /\ "reason" \in DOMAIN result
    /\ result.reason = "report_generation_failed"

ResultKinds(result) ==
    {k \in {"unready", "report", "error", "failed"} :
        \/ k = "unready" /\ IsUnready(result)
        \/ k = "report" /\ IsDriftReport(result)
        \/ k = "error" /\ IsErrorRecord(result)
        \/ k = "failed" /\ IsFailedRecord(result)}

\* C11 as stated: every detect_drift result is a not-ready result, a
\* DriftReport or an error record with reason 'error', and a comparison
\* that raises or yields no usable dataset-drift result gives reason 'error'.
C11_ThreeKindsOfResult ==
    last.op = "detect_drift" =>
        /\ Cardinality(ResultKinds(last.result) \ {"failed"}) = 1
        /\ (last.compared /\ last.outcome.kind \in {"raise", "no_metric"})
               => IsErrorRecord(last.result)

\* C11: every detect_drift result is exactly one of a not-ready result, a
\* DriftReport, an error record with reason 'error' (the comparison
\* raised) or a record with reason 'report_generation_failed' (the
\* comparison yielded no DatasetDriftMetric entry).
C11_FourKindsOfResult ==
    last.op = "detect_drift" =>
        /\ Cardinality(ResultKinds(last.result)) = 1
        /\ (last.compared /\ last.outcome.kind = "raise")
               <=> IsErrorRecord(last.result)
        /\ (last.compared /\ last.outcome.kind = "no_metric")
               <=> IsFailedRecord(last.result)
        /\ (last.compared /\ last.outcome.kind = "metric")
               <=> IsDriftReport(last.result)
        /\ ~last.compared <=> IsUnready(last.result)

\* a comparison on a ready detector that yields no DatasetDriftMetric entry
C11_Witness ==
    /\ last.op = "detect_drift"
    /\ last.compared
    /\ last.outcome.kind = "no_metric"
    /\ last.result.reason = "report_generation_failed"

\* C12: a stored drift report exists only while both windows are full.
C12_ReportOnlyWhenBothFull ==
    vqa_drift_detector.drift_report # None =>
        /\ Len(Reference) >= reference_size
        /\ Len(Current) >= detection_size

\* a stored report that outlived a later add_sample call
C12_Witness ==
    /\ vqa_drift_detector.drift_report # None
    /\ last.op = "add_sample"
    /\ was_reset
    /\ Get(vqa_drift_detector.drift_report).timestamp < clock

StoredByComparison ==
    (last.op = "detect_drift" /\ IsDriftReport(last.result)) =>
        /\ vqa_drift_detector.drift_report = Some(last.result)
        /\ vqa_drift_detector.drift_detected = last.result.dataset_drift
        /\ vqa_drift_detector.last_check_time # None

ReportIffCheckTime ==
    vqa_drift_detector.drift_report = None
        <=> vqa_drift_detector.last_check_time = None

SummaryOfStoredReport ==
    LET summary == get_drift_summary(vqa_drift_detector).result
        stored == vqa_drift_detector.drift_report
    IN  IF stored = None
        THEN summary.status = "no_analysis"
        ELSE /\ summary.status = IF Get(stored).dataset_drift
                                 THEN "drift_detected" ELSE "no_drift"
             /\ summary.drift_detected = Get(stored).dataset_drift
             /\ summary.drift_share = Get(stored).drift_share
             /\ summary.num_drifted_features = Get(stored).num_drifted_features
             /\ summary.last_check = Some(Get(stored).timestamp)

ReportChangesOnlyByComparisonOrReset ==
    vqa_drift_detector'.drift_report # vqa_drift_detector.drift_report =>
        \/ /\ last'.op = "detect_drift"
           /\ IsDriftReport(last'.result)
           /\ vqa_drift_detector'.drift_report = Some(last'.result)
        \/ /\ last'.op = "reset_reference"
           /\ vqa_drift_detector'.drift_report = None

\* C13: a successful comparison stores the report it returns, its
\* dataset_drift as drift_detected and the check time; the stored report is
\* None exactly when last_check_time is None; it changes only by a later
\* successful comparison or a reset, and get_drift_summary shows it.
C13_SingleStoredReport ==
    /\ [](StoredByComparison /\ ReportIffCheckTime /\ SummaryOfStoredReport)
    /\ [][ReportChangesOnlyByComparisonOrReset]_vars

\* a successful comparison replacing the report of an earlier one
C13_Witness ==
    /\ last.op = "detect_drift"
    /\ IsDriftReport(last.result)
    /\ last.pre.drift_report # None
    /\ Get(last.pre.drift_report) # last.result
    /\ get_drift_summary(vqa_drift_detector).result.drift_share
           = last.result.drift_share

----------------------------------------------------------------------------
(* Read views *)

ViewedFields(self) ==
    <<self.reference_data, self.current_data, self.drift_report,
      self.drift_detected, self.last_check_time>>

ViewsLeaveDetector ==
    /\ get_drift_summary(vqa_drift_detector).self = vqa_drift_detector
    /\ \A statistics \in StatisticsOutcomes :
           /\ get_stats(vqa_drift_detector, statistics).self = vqa_drift_detector
           /\ get_data_quality_report(vqa_drift_detector, statistics).self
                  = vqa_drift_detector

ViewStep ==
    \/ GetDriftStatus
    \/ \E statistics \in StatisticsOutcomes :
           \/ GetDriftSummary(statistics)
           \/ GetDataQuality(statistics)
           \/ HealthCheck(statistics)

\* C14: get_drift_summary, get_stats and get_data_quality_report return the
\* detector as they found it, and a step of GET /drift/status,
\* /drift/summary, /data-quality or /health leaves reference_data,
\* current_data, drift_report, drift_detected and last_check_time unchanged.
C14_ViewsDoNotMutate ==
    /\ []ViewsLeaveDetector
    /\ [][ViewStep => ViewedFields(vqa_drift_detector')
                          = ViewedFields(vqa_drift_detector)]_vars

\* /drift/summary answered of a detector that holds both windows and a report
C14_Witness ==
    /\ response # None
    /\ Get(response).route = "drift/summary"
    /\ Get(response).status = 200
    /\ Get(response).body.detector_stats.current_size > 0
    /\ Get(response).body.drift_summary.status # "no_analysis"
    /\ vqa_drift_detector.drift_report # None
    /\ Len(vqa_drift_detector.current_data) > 0

----------------------------------------------------------------------------
(* Failed inference *)

FailedInference(r) ==
    \E features \in Features : AnswerInfer(r, features, "raise")

AnsweredWithFailure(r) ==
    /\ pc[r] = "reading"
    /\ pc'[r] = "idle"
    /\ response' = ErrorResponse("answer", 500)

\* C15: a step of /answer whose inference raises answers with status 500
\* and leaves the detector (Reference, Current, the stored report), the
\* samples added so far and the gauges as they were; no other step of a
\* request that was reading answers with that failure.
C15_FailedInferenceAddsNothing ==
    [][\A r \in Requests :
           /\ FailedInference(r) => AnsweredWithFailure(r)
           /\ AnsweredWithFailure(r) =>
                  /\ vqa_drift_detector' = vqa_drift_detector
                  /\ added' = added
                  /\ gauges' = gauges]_vars

\* a failed request answered while the detector holds windows and a report
C15_Witness ==
    /\ response = ErrorResponse("answer", 500)
    /\ Len(vqa_drift_detector.reference_data) > 0
    /\ Len(vqa_drift_detector.current_data) > 0
    /\ vqa_drift_detector.drift_report # None
    /\ \E r \in Requests : pc[r] = "reading"

----------------------------------------------------------------------------
(* Concurrent requests *)

\* the detector of the router addressed
Detector == IF service = "vqa" THEN vqa_drift_detector ELSE evidently_detector

Comparing == {r \in Requests : pc[r] = "comparing"}

\* a request returns its response with a drift result
Completes(r) ==
    /\ pc[r] # "idle"
    /\ pc'[r] = "idle"
    /\ Get(response').status = 200

\* between an add_sample and the end of its detect_drift only that request
\* takes a step
NothingInsideWindowOperations ==
    Comparing # {} =>
        \E r \in Comparing :
            /\ pc' = [pc EXCEPT ![r] = "idle"]
            /\ last.op = "add_sample"
            /\ last'.pre = Detector

\* the detect_drift of a completing request ran on the windows its own
\* add_sample left
DetectsOnOwnSample(r) ==
    Completes(r) =>
        /\ prev'.op = "add_sample"
        /\ prev'.sample = Get(response').sample
        /\ last'.op = "detect_drift"
        /\ last'.pre = add_sample(prev'.pre, prev'.sample)
        /\ last'.pre.current_data[Len(last'.pre.current_data)]
               = Get(response').sample
        /\ "evidently_drift" \in DOMAIN Get(response')
        /\ service = "vqa" => Get(response').evidently_drift = last'.result

WindowSizesHold ==
    /\ Len(Detector.reference_data) <= Detector.reference_window_size
    /\ Len(Detector.current_data) <= Detector.detection_window_size
    /\ Cardinality(Comparing) <= 1

\* C16: with several requests in flight, once a request has added its
\* sample no other handler takes a step until its detect_drift has returned;
\* the result a request receives was computed on the windows its own
\* add_sample left, whose newest Current record is its own sample; and both
\* windows stay within their sizes in every state.
C16_WindowOperationsAtomic ==
    /\ []WindowSizesHold
    /\ [][NothingInsideWindowOperations
          /\ \A r \in Requests : DetectsOnOwnSample(r)]_vars

\* a request received second has its report, computed on its own sample,
\* while the request received before it still waits for its upload
C16_Witness ==
    /\ service = "vqa"
    /\ response # None
    /\ Get(response).route = "answer"
    /\ Get(response).status = 200
    /\ IsDriftReport(Get(response).evidently_drift)
    /\ Get(response).sample = Current[Len(Current)]
    /\ last.op = "detect_drift"
    /\ pc[1] = "reading"
    /\ pc[2] = "idle"
    /\ was_reset

\* the add_sample of request q can run now
CanAddSample(q) ==
    ENABLED (\/ \E features \in Features : AnswerInfer(q, features, "ok")
             \/ \E features \in Features, embedding \in Embeddings :
                    DetectInfer(q, features, embedding, "ok"))

AddSampleNotStalled ==
    \A q \in Requests :
        (Comparing # {} /\ pc[q] = "reading") => CanAddSample(q)

\* the comparison that returns was made on the windows as they were when
\* it started, right after the add_sample of its request
ComparedOnWindowsAtStart ==
    \A r \in Comparing :
        pc'[r] = "idle" =>
            /\ last.op = "add_sample"
            /\ last'.op = "detect_drift"
            /\ last'.compared
            /\ last'.pre = add_sample(last.pre, last.sample)

\* C17: while the comparison of one request is in progress, a request that
\* has read its upload can run its add_sample, and the result of the
\* comparison is computed on the windows as they were when it started.
C17_CopyThenCompare ==
    /\ []AddSampleNotStalled
    /\ [][ComparedOnWindowsAtStart]_vars

----------------------------------------------------------------------------
(* Drift gauges *)

\* the three drift gauges of the router addressed
DriftGaugeValues ==
    IF service = "vqa"
    THEN <<gauges.dataset_drift, gauges.drift_share, gauges.num_drifted_features>>
    ELSE <<yolo_gauges.dataset_drift, yolo_gauges.drift_share,
           yolo_gauges.num_drifted_features>>

\* the comparison of the detect_drift call succeeded and gave a metric
ReturnedDriftReport(call) ==
    /\ call.op = "detect_drift"
    /\ call.compared
    /\ call.outcome.kind = "metric"

GaugesOfReport(report) ==
    <<IF report.dataset_drift THEN 1 ELSE 0, report.drift_share,
      report.num_drifted_features>>

GaugesSetExactlyOnReport ==
    IF \E r \in Requests : Completes(r)
    THEN IF ReturnedDriftReport(last')
         THEN DriftGaugeValues' = GaugesOfReport(last'.result)
         ELSE DriftGaugeValues' = DriftGaugeValues
    ELSE DriftGaugeValues' = DriftGaugeValues

\* C18: the step in which an infer request returns sets the three drift
\* gauges to the values of the DriftReport its detect_drift returned, and
\* leaves them as they were when the result is a not-ready, error or
\* report_generation_failed record; no other step modifies a drift gauge.
C18_GaugesSetExactlyOnReport == [][GaugesSetExactlyOnReport]_vars

\* an error record returned to a request, the gauges still showing the
\* drifted report of an earlier request
C18_Witness ==
    /\ last.op = "detect_drift"
    /\ IsErrorRecord(last.result)
    /\ response # None
    /\ Get(response).status = 200
    /\ Detector.drift_report # None
    /\ Get(Detector.drift_report).dataset_drift
    /\ DriftGaugeValues = GaugesOfReport(Get(Detector.drift_report))
    /\ DriftGaugeValues[2] > 0

----------------------------------------------------------------------------
(* Question types *)

QuestionTypes ==
    {"what", "where", "when", "who", "why", "how_many", "how", "yes_no", "other"}

\* the ordered prefix table
PrefixTable ==
    <<<<what, "what">>, <<where, "where">>, <<when, "when">>, <<who, "who">>,
      <<why, "why">>, <<how_many, "how_many">>, <<how_much, "how_many">>,
      <<how, "how">>, <<is, "yes_no">>, <<are, "yes_no">>, <<do, "yes_no">>,
      <<does, "yes_no">>>>

FirstMatchingRule(q) ==
    LET normal == strip(lower(q))
        matching == {i \in 1..Len(PrefixTable) : startswith(normal, PrefixTable[i][1])}
    IN  IF matching = {} THEN "other"
        ELSE PrefixTable[CHOOSE i \in matching : \A j \in matching : i <= j][2]

BeginsHowManyOrMuch(q) ==
    \/ startswith(strip(lower(q)), how_many)
    \/ startswith(strip(lower(q)), how_much)

\* C19: the type _detect_question_type returns is the one of the first
\* matching rule of the ordered prefix table on the lowercased, trimmed
\* question; it is one of the nine types, the same for the question in
\* upper case, in lower case, trimmed and with whitespace put around it,
\* and how_many for every question that begins 'how many' or 'how much'.
C19_FirstMatchingPrefix ==
    question_type # None =>
        /\ Get(question_type) = FirstMatchingRule(question)
        /\ Get(question_type) \in QuestionTypes
        /\ Get(question_type) = _detect_question_type(upper(question))
        /\ Get(question_type) = _detect_question_type(lower(question))
        /\ Get(question_type) = _detect_question_type(strip(question))
        /\ \A before \in Pads, after \in Pads :
               Get(question_type)
                   = _detect_question_type(before \o question \o after)
        /\ BeginsHowManyOrMuch(question) => Get(question_type) = "how_many"

\* ' How much it? ' classified how_many
C19_Witness ==
    /\ question_type = Some("how_many")
    /\ Len(question) > 2
    /\ question[1] \in Whitespace
    /\ question[2] = "H"
    /\ question[Len(question)] \in Whitespace
    /\ startswith(strip(lower(question)), how_much)
    /\ question # lower(question)

----------------------------------------------------------------------------
(* Baseline embedding *)

\* a detection request gets past the embedding step with this embedding
ReachesEmbeddingStep(embedding) ==
    \E r \in Requests, features \in Features :
        DetectInfer(r, features, embedding, "ok")

BaselineSetOnce ==
    /\ reference_embedding # None =>
           \/ reference_embedding' = reference_embedding
           \/ \E statistics \in StatisticsOutcomes :
                  DetectResetReference(statistics)
    /\ \A embedding \in Embeddings :
           ReachesEmbeddingStep(embedding) =>
               reference_embedding' = IF reference_embedding = None
                                      THEN Some(embedding)
                                      ELSE reference_embedding
    /\ (reference_embedding = None /\ reference_embedding' # None) =>
           \E embedding \in Embeddings : ReachesEmbeddingStep(embedding)

\* C20: the baseline embedding is None until the first detection request
\* gets past the embedding step, which assigns it its own embedding; once
\* assigned, no detection request changes it, whatever the interleaving,
\* and the only step that may change it is a reset.
C20_BaselineSetOnce ==
    /\ [](service = "yolo" => (reference_embedding = None <=> added = <<>>))
    /\ [][BaselineSetOnce]_vars

\* the baseline of the first request kept through a reset and a later
\* request with another embedding
C20_Witness ==
    /\ service = "yolo"
    /\ reference_embedding = Some(<<1, 2, 3, 4>>)
    /\ Len(added) >= 3
    /\ was_reset
    /\ last.op = "detect_drift"
    /\ yolo_gauges.embedding_distance \notin {0, 100}

----------------------------------------------------------------------------
(* Baseline embedding and reset *)

\* the first detection request past the embedding step after a reset of the
\* detection router
FirstAfterReset(embedding) ==
    /\ service = "yolo"
    /\ last.op = "reset_reference"
    /\ ReachesEmbeddingStep(embedding)

\* C21: the first detection request after POST /drift/reset-reference of
\* the detection router becomes the baseline, and its embedding distance
\* is 0.
C21_BaselineReestablishedAfterReset ==
    [][\A embedding \in Embeddings :
           FirstAfterReset(embedding) =>
               /\ reference_embedding' = Some(embedding)
               /\ yolo_gauges'.embedding_distance = 0]_vars

\* a detection request past the embedding step whose embedding is the
\* baseline, the request that sets the baseline included
EqualsBaseline(embedding) ==
    /\ ReachesEmbeddingStep(embedding)
    /\ reference_embedding' = Some(embedding)

\* C22: a detection request whose embedding equals the baseline has
\* embedding distance 0, whatever the embedding.
C22_DistanceZeroOnBaseline ==
    [][\A embedding \in Embeddings :
           EqualsBaseline(embedding) => yolo_gauges'.embedding_distance = 0]_vars

----------------------------------------------------------------------------
(* The drift result in the response *)

\* the evidently_drift field of a response: None for the empty dict
CarriedDrift(resp) ==
    IF resp.route = "answer" THEN Some(resp.evidently_drift)
                             ELSE resp.evidently_drift

\* C23: the response of every successful infer request, of either router,
\* carries in evidently_drift the result its detect_drift returned: the
\* not-ready record with its reason and counts when the detector was not
\* ready, the result of the comparison otherwise.
C23_ResponseCarriesDriftResult ==
    [][\A r \in Requests :
           Completes(r) =>
               /\ last'.op = "detect_drift"
               /\ CarriedDrift(Get(response')) = Some(last'.result)
               /\ ~last'.compared =>
                      /\ IsUnready(last'.result)
                      /\ last'.result.reference_size
                             = Len(last'.pre.reference_data)
                      /\ last'.result.current_size
                             = Len(last'.pre.current_data)]_vars

----------------------------------------------------------------------------
(* Totality of reset and summaries *)

\* the call left by an exception instead of a return value
Raises(returned) == "raised" \in DOMAIN returned /\ returned.raised

StatusOf(result) == IF "status" \in DOMAIN result THEN Some(result.status) ELSE None

ResetReturns ==
    LET self1 == reset_reference(vqa_drift_detector)
    IN  /\ DOMAIN self1 = DOMAIN vqa_drift_detector
        /\ Len(self1.reference_data) + Len(self1.current_data) = Len(Current)
        /\ Len(self1.reference_data) <= reference_size

SummaryReturns ==
    /\ ~Raises(get_drift_summary(vqa_drift_detector))
    /\ StatusOf(get_drift_summary(vqa_drift_detector).result)
           \in {Some("no_analysis"), Some("no_drift"), Some("drift_detected")}

DataQualityReturns ==
    \A statistics \in StatisticsOutcomes :
        LET returned == get_data_quality_report(vqa_drift_detector, statistics)
        IN  /\ ~Raises(returned)
            /\ StatusOf(returned.result) = Some("no_data") <=> Current = <<>>
            /\ (Current # <<>> /\ statistics = "raise") =>
                   StatusOf(returned.result) = Some("error")
            /\ (Current # <<>> /\ statistics = "ok") =>
                   /\ StatusOf(returned.result) = None
                   /\ returned.result.total_samples = Len(Current)

\* C24: in every state reset_reference, get_drift_summary and
\* get_data_quality_report return a value; get_data_quality_report returns
\* status 'no_data' exactly when Current is empty, and status 'error' when
\* its statistics fail on a non-empty Current.
C24_ResetAndSummariesTotal ==
    /\ ResetReturns
    /\ SummaryReturns
    /\ DataQualityReturns

\* a reset that left records in Current, over which the statistics may fail
C24_Witness ==
    /\ last.op = "reset_reference"
    /\ last.pre.drift_report # None
    /\ Current # <<>>
    /\ Reference # <<>>
    /\ StatusOf(get_data_quality_report(vqa_drift_detector, "raise").result)
           = Some("error")
    /\ StatusOf(get_drift_summary(vqa_drift_detector).result) = Some("no_analysis")

----------------------------------------------------------------------------
(* Records of the two windows *)

Records(window) == {window[i] : i \in 1..Len(window)}

\* the add_sample call on detector pre reaches the backfill with a short
\* Reference and a full Current
Backfills(pre) ==
    LET over == Len(pre.current_data) + 1 > pre.detection_window_size
        moved == IF over /\ Len(pre.reference_data) < pre.reference_window_size
                 THEN 1 ELSE 0
        current_len == IF over THEN Len(pre.current_data)
                               ELSE Len(pre.current_data) + 1
    IN  /\ Len(pre.reference_data) + moved < pre.reference_window_size
        /\ current_len >= pre.detection_window_size

\* C25: every add_sample call that backfills leaves the oldest record of
\* Current in Reference as well, so that the two windows are not disjoint;
\* add_sample calls alone reach such a state.
C25_BackfillDuplicatesAcrossWindows ==
    (last.op = "add_sample" /\ Backfills(last.pre)) =>
        /\ Current # <<>>
        /\ Current[1] \in Records(Reference)
        /\ Records(Reference) \cap Records(Current) # {}

\* add_sample calls alone, the newest of them a backfill, and a record in
\* both windows
C25_Witness ==
    /\ ~was_reset
    /\ last.op = "add_sample"
    /\ prev.op \in {"none", "add_sample"}
    /\ Backfills(last.pre)
    /\ vqa_drift_detector.drift_report = None
    /\ \E record \in Records(Reference) : record \in Records(Current)

\* C26: the records of Reference are pairwise distinct, so a full
\* Reference holds reference_window_size different samples.
C26_ReferenceRecordsDistinct ==
    /\ \A i, j \in 1..Len(Reference) : i # j => Reference[i] # Reference[j]
    /\ Len(Reference) = reference_size =>
           Cardinality(Records(Reference)) = reference_size

----------------------------------------------------------------------------
(* The full reference window *)

Ready ==
    /\ Len(Reference) >= reference_size
    /\ Len(Current) >= detection_size

FullReferenceFrozen ==
    (Len(Reference) = reference_size /\ last'.op # "reset_reference") =>
        Reference' = Reference

ReadyStaysReady ==
    (Ready /\ last'.op # "reset_reference") => Ready'

\* C27: a step of add_sample or detect_drift taken with a full Reference
\* leaves Reference as it is, and a ready detector is ready after it; only
\* reset_reference changes a full Reference.
C27_FullReferenceFrozen == [][FullReferenceFrozen /\ ReadyStaysReady]_vars

\* an add_sample call on a ready detector that replaced a record of Current
C27_Witness ==
    /\ last.op = "add_sample"
    /\ Len(last.pre.reference_data) = reference_size
    /\ Len(last.pre.current_data) = detection_size
    /\ Reference = last.pre.reference_data
    /\ Current # last.pre.current_data
    /\ Ready
    /\ prev.op = "detect_drift"
    /\ IsDriftReport(prev.result)

\* C28: with reference_window_size > detection_window_size, a full
\* Reference comes with a full Current in every state, and no detect_drift
\* call returns insufficient_current_data.
C28_FullReferenceImpliesFullCurrent ==
    reference_size > detection_size =>
        /\ Len(Reference) = reference_size => Len(Current) = detection_size
        /\ last.op = "detect_drift" =>
               \/ "reason" \notin DOMAIN last.result
               \/ last.result.reason # "insufficient_current_data"

\* a comparison on windows filled again after a reset, the reference
\* window the larger one
C28_Witness ==
    /\ reference_size > detection_size
    /\ was_reset
    /\ Len(Reference) = reference_size
    /\ Len(Current) = detection_size
    /\ last.op = "detect_drift"
    /\ last.compared
    /\ last.pre.drift_report = None

----------------------------------------------------------------------------
(* Analysis state after a reset *)

SummaryStatus(self) == get_drift_summary(self).result.status

NoAnalysisWithoutReport ==
    vqa_drift_detector.drift_report = None <=>
        SummaryStatus(vqa_drift_detector) = "no_analysis"

ResetClearsAnalysis ==
    last'.op = "reset_reference" =>
        /\ vqa_drift_detector'.drift_report = None
        /\ vqa_drift_detector'.drift_detected = FALSE
        /\ vqa_drift_detector'.last_check_time = None
        /\ SummaryStatus(vqa_drift_detector') = "no_analysis"

NoAnalysisUntilComparison ==
    (/\ SummaryStatus(vqa_drift_detector) = "no_analysis"
     /\ SummaryStatus(vqa_drift_detector') # "no_analysis") =>
        ReturnedDriftReport(last')

\* C29: the step of reset_reference leaves drift_report None, drift_detected
\* False and last_check_time None whatever was stored; get_drift_summary
\* returns 'no_analysis' exactly while no report is stored, and stops
\* returning it only by a successful comparison.
C29_ResetClearsAnalysis ==
    /\ []NoAnalysisWithoutReport
    /\ [][ResetClearsAnalysis /\ NoAnalysisUntilComparison]_vars

\* a detect_drift call after the reset of a detector that had detected
\* drift, the summary still without analysis
C29_Witness ==
    /\ prev.op = "reset_reference"
    /\ prev.pre.drift_report # None
    /\ prev.pre.drift_detected
    /\ last.op = "detect_drift"
    /\ ~IsDriftReport(last.result)
    /\ SummaryStatus(vqa_drift_detector) = "no_analysis"
    /\ ~vqa_drift_detector.drift_detected

----------------------------------------------------------------------------
(* Drift gauges after a reset *)

ResetLeavesGauges ==
    last'.op = "reset_reference" =>
        /\ gauges' = gauges
        /\ yolo_gauges' = yolo_gauges

GaugesChangeOnlyByReport ==
    DriftGaugeValues' # DriftGaugeValues =>
        /\ ReturnedDriftReport(last')
        /\ \E r \in Requests : Completes(r)

GaugesOfResetReport ==
    (last.op = "reset_reference" /\ last.pre.drift_report # None) =>
        /\ DriftGaugeValues = GaugesOfReport(Get(last.pre.drift_report))
        /\ Detector.drift_report = None
        /\ SummaryStatus(Detector) = "no_analysis"

\* C30: the step of POST /drift/reset-reference, of either router, leaves
\* every gauge as it was: after it the drift gauges show the report the
\* reset discarded while the detector reports no analysis, and they change
\* only when a later infer request returns a DriftReport.
C30_ResetLeavesGauges ==
    /\ []GaugesOfResetReport
    /\ [][ResetLeavesGauges /\ GaugesChangeOnlyByReport]_vars

\* a reset answered with success, the gauges still showing dataset drift
C30_Witness ==
    /\ last.op = "reset_reference"
    /\ last.pre.drift_report # None
    /\ response # None
    /\ Get(response).route = "drift/reset-reference"
    /\ Get(response).status = 200
    /\ DriftGaugeValues[1] = 1
    /\ DriftGaugeValues[3] > 0
    /\ Detector.drift_report = None
    /\ ~Detector.drift_detected

====
